---- MODULE Spec2Model ----
(***************************************************************************)
(* A model of dashboard.py, the Streamlit script of the social-media and   *)
(* mental-health dashboard.  One run of the script is a sequence of steps  *)
(* (load, filters, filter, metrics, charts ...); a widget change or a      *)
(* refresh starts the next run.  The cache of load_data and the widget     *)
(* state live across runs, everything else is recomputed by each run.      *)
(*                                                                         *)
(* A cell of the table is a sequence of length at most one: <<v>> is the   *)
(* value v, <<>> is a missing value (pandas' NaN).  A float is a fraction  *)
(* [num, den]; den = 0 is the float NaN.                                   *)
(***************************************************************************)
EXTENDS Integers, Sequences, FiniteSets, TLC

VARIABLES
    file,       \* what is on disk under the CSV's name
    cache,      \* st.cache_data's entry for load_data
    reads,      \* how many times pd.read_csv has been called
    firstDf,    \* what the first call of load_data returned
    session,    \* the widgets' stored selections
    pc,         \* the position of the running script
    df,         \* the table load_data returned to this run
    sel,        \* selected_platform, selected_age_range, selected_gender
    view,       \* filtered_df
    cards,      \* the metric cards rendered by this run
    scatter,    \* fig_happiness
    radar,      \* fig_radar's traces
    rendered,   \* the elements this run has put on the page
    exc,        \* the exception that ended this run, if any
    cutIn,      \* an Age handed to pd.cut on its own
    cutOut      \* the label pd.cut gave it

vars == <<file, cache, reads, firstDf, session, pc, df, sel, view, cards,
          scatter, radar, rendered, exc, cutIn, cutOut>>

(***************************************************************************)
(* Bounds.                                                                 *)
(***************************************************************************)
MaxRows == 2
MaxCacheRows == 1
MaxAge == 110
MaxReads == 3

(***************************************************************************)
(* The columns.                                                            *)
(***************************************************************************)
Age == "Age"
Gender == "Gender"
Platform == "Social_Media_Platform"
Screen == "Daily_Screen_Time(hrs)"
Sleep == "Sleep_Quality(1-10)"
Stress == "Stress_Level(1-10)"
Happiness == "Happiness_Index(1-10)"
Exercise == "Exercise_Frequency(week)"
Age_Range == "Age_Range"

Columns == {Age, Gender, Platform, Screen, Sleep, Stress, Happiness, Exercise}

NaN == <<>>

Range(s) == {s[i] : i \in 1..Len(s)}

(***************************************************************************)
(* Floats, as fractions.                                                   *)
(***************************************************************************)
NaNF == [num |-> 0, den |-> 0]

IsNaNF(x) == x.den = 0

Sub(a, b) ==
    IF IsNaNF(a) \/ IsNaNF(b) THEN NaNF
    ELSE [num |-> a.num * b.den - b.num * a.den, den |-> a.den * b.den]

\* x rounded to the nearest integer, ties to the even one (d > 0).
RoundHalfEven(n, d) ==
    LET q == n \div d
        r == n - q * d
    IN  IF 2 * r < d THEN q
        ELSE IF 2 * r > d THEN q + 1
        ELSE IF q % 2 = 0 THEN q ELSE q + 1

\* f"{x:.2f}": "nan", or the number in hundredths.  A mean of at most
\* seven small integers, or a difference of two, never lies halfway between
\* two hundredths, so the float's rounding is the fraction's.
Format2f(x) ==
    IF IsNaNF(x) THEN [nan |-> TRUE, cents |-> 0]
    ELSE [nan |-> FALSE, cents |-> RoundHalfEven(100 * x.num, x.den)]

(***************************************************************************)
(* pandas.                                                                 *)
(***************************************************************************)
bins == <<10, 20, 25, 30, 35, 40, 50, 100>>
labels == <<"15-20", "21-25", "26-30", "31-35", "36-40", "41-50", "50+">>

\* numpy's searchsorted(a, x, side="left"): how many of a lie below x.
SearchSortedLeft(a, x) == Cardinality({i \in 1..Len(a) : a[i] < x})
SearchSortedRight(a, x) == Cardinality({i \in 1..Len(a) : a[i] <= x})

\* pd.cut with right=False, the bins closed on the left instead.
CutRightOpen(x) ==
    IF x = NaN THEN NaN
    ELSE LET ids == SearchSortedRight(bins, x[1])
         IN  IF ids = Len(bins) \/ ids = 0 THEN NaN ELSE <<labels[ids]>>

\* pd.cut(x, bins=bins, labels=labels, include_lowest=True) of one cell.
Cut(x) ==
    IF x = NaN THEN NaN
    ELSE LET found == SearchSortedLeft(bins, x[1])
             ids == IF x[1] = bins[1] THEN 1 ELSE found
         IN  IF ids = Len(bins) \/ ids = 0 THEN NaN ELSE <<labels[ids]>>

\* df[c] as the sequence of its cells.
Col(rows, c) == [i \in 1..Len(rows) |-> rows[i][c]]

\* Series.dropna().unique(): the distinct values without the missing one.
UniqueDropNa(s) ==
    LET F[i \in 0..Len(s)] ==
            IF i = 0 THEN <<>>
            ELSE IF s[i] = NaN \/ \E j \in 1..(i - 1) : s[j] = s[i] THEN F[i - 1]
            ELSE Append(F[i - 1], s[i])
    IN  F[Len(s)]

\* Series.unique(): the distinct values in order of first appearance, the
\* missing value among them.
Unique(s) ==
    LET F[i \in 0..Len(s)] ==
            IF i = 0 THEN <<>>
            ELSE IF \E j \in 1..(i - 1) : s[j] = s[i] THEN F[i - 1]
            ELSE Append(F[i - 1], s[i])
    IN  F[Len(s)]

\* Series.isin(values): a missing cell matches a missing value among them.
IsIn(s, values) == [i \in 1..Len(s) |-> s[i] \in values]

\* Series == value: a missing value equals nothing, itself included.
EqMask(s, value) == [i \in 1..Len(s) |-> s[i] # NaN /\ value # NaN /\ s[i] = value]

\* df[mask]: the rows whose mask is true, in order.
BoolIndex(rows, mask) ==
    LET F[i \in 0..Len(rows)] ==
            IF i = 0 THEN <<>>
            ELSE IF mask[i] THEN Append(F[i - 1], rows[i]) ELSE F[i - 1]
    IN  F[Len(rows)]

\* Series.mean(): over the cells that are not missing; NaN when there is none.
Mean(s) ==
    LET F[i \in 0..Len(s)] ==
            IF i = 0 THEN [num |-> 0, den |-> 0]
            ELSE IF s[i] = NaN THEN F[i - 1]
            ELSE [num |-> F[i - 1].num + s[i][1], den |-> F[i - 1].den + 1]
    IN  F[Len(s)]

(***************************************************************************)
(* The files the script may find on disk.  A record is a row of the CSV;   *)
(* the first two are records of a well-formed file, the last two carry      *)
(* missing cells and an Age outside the bins.                              *)
(***************************************************************************)
Record(platform, age, gender, screen, sleep, stress, happiness, exercise) ==
    (Platform :> platform) @@ (Age :> age) @@ (Gender :> gender) @@
    (Screen :> screen) @@ (Sleep :> sleep) @@ (Stress :> stress) @@
    (Happiness :> happiness) @@ (Exercise :> exercise)

Records ==
    { Record(<<"Facebook">>, <<18>>, <<"Male">>, <<2>>, <<7>>, <<3>>, <<8>>, <<4>>),
      Record(<<"Instagram">>, <<33>>, <<"Female">>, <<6>>, <<5>>, <<7>>, <<4>>, <<1>>),
      Record(NaN, <<101>>, <<"Male">>, <<4>>, <<6>>, <<5>>, <<6>>, <<2>>),
      Record(<<"Facebook">>, <<60>>, <<"Female">>, <<3>>, <<4>>, <<6>>, NaN, NaN) }

CacheRecords ==
    { Record(<<"Facebook">>, <<18>>, <<"Male">>, <<2>>, <<7>>, <<3>>, <<8>>, <<4>>),
      Record(NaN, <<101>>, <<"Male">>, <<4>>, <<6>>, <<5>>, <<6>>, <<2>>) }

SampleRows ==
    << Record(<<"Facebook">>, <<18>>, <<"Male">>, <<2>>, <<7>>, <<3>>, <<8>>, <<4>>),
       Record(<<"Instagram">>, <<33>>, <<"Female">>, <<6>>, <<5>>, <<7>>, <<4>>, <<1>>) >>

SeqsUpTo(S, n) == UNION {[1..k -> S] : k \in 0..n}

Restrict(r, cols) == [c \in cols |-> r[c]]

MissingFile == [kind |-> "missing", columns |-> {}, rows |-> <<>>]
GarbledFile == [kind |-> "garbled", columns |-> {}, rows |-> <<>>]
Csv(cols, rows) ==
    [kind |-> "csv", columns |-> cols,
     rows |-> [i \in 1..Len(rows) |-> Restrict(rows[i], cols)]]

Files ==
    {MissingFile, GarbledFile}
    \cup {Csv(Columns, rows) : rows \in SeqsUpTo(Records, MaxRows)}
    \cup {Csv(Columns \ {c}, SampleRows) : c \in Columns}

CacheFiles ==
    {MissingFile, GarbledFile}
    \cup {Csv(Columns, rows) : rows \in SeqsUpTo(CacheRecords, MaxCacheRows)}

(***************************************************************************)
(* load_data.                                                              *)
(***************************************************************************)
None == [ok |-> FALSE, columns |-> {}, rows |-> <<>>]

NoMessage == "none"
NotFoundMessage == "Error: The data file was not found"
LoadErrorMessage == "Error loading data"

\* The body of load_data: the table with its Age_Range column, or the
\* message of the except clause that caught the failure, and None.
ReadAndBucket(f) ==
    IF f.kind = "missing" THEN [value |-> None, message |-> NotFoundMessage]
    ELSE IF f.kind = "garbled" \/ Age \notin f.columns
    THEN [value |-> None, message |-> LoadErrorMessage]
    ELSE [value |->
              [ok |-> TRUE,
               columns |-> f.columns \cup {Age_Range},
               rows |-> [i \in 1..Len(f.rows) |->
                            f.rows[i] @@ (Age_Range :> Cut(f.rows[i][Age]))]],
          message |-> NoMessage]

EmptyCache == [full |-> FALSE, value |-> None, message |-> NoMessage]

\* load_data without its decorator: no call is ever answered from a cache.
CacheMiss == FALSE

\* @st.cache_data: a stored entry answers the call.
CacheHit == cache.full

\* The script without lines 55-56: it runs on without a table.
NeverStop(d) == FALSE

\* if df is None: st.stop()
StopIfNone(d) == ~d.ok

(***************************************************************************)
(* The state of one run, and the run's steps in the order of the script.   *)
(***************************************************************************)
Steps == <<"load", "filters", "filter", "metrics", "platform_tab", "scatter",
           "radar", "demographics", "correlation", "summary">>

StepNo(p) == CHOOSE i \in 1..Len(Steps) : Steps[i] = p

NoExc == [type |-> "none", at |-> "none"]

\* How far the run has come: the number of the step it is at, or stopped
\* at; a run that is done has passed them all.
Position ==
    IF pc = "done" THEN Len(Steps) + 1
    ELSE IF pc = "stopped" THEN StepNo("filters")
    ELSE IF pc = "crashed" THEN StepNo(exc.at)
    ELSE IF pc = "cut" THEN 0
    ELSE StepNo(pc)

\* The step has run to its end in this run.
Passed(step) == Position > StepNo(step)

\* The step has run in this run, to its end or to an exception.
Acted(step) == Passed(step) \/ (pc = "crashed" /\ exc.at = step)

NoSelection == [platform |-> <<>>, age |-> {}, gender |-> {}]
NoSession == [touched |-> {}, platform |-> <<>>, age |-> {}, gender |-> {}]
NoCards == [c \in {} |-> 0]
NoScatter == [trendline_failed |-> FALSE, fig |-> "none"]
NoCut == [done |-> FALSE, label |-> NaN]
NoFirst == [set |-> FALSE, value |-> None]

\* The script starts over: nothing of the previous run is kept but the
\* cache and the widgets' state.
StartRun ==
    /\ pc' = "load"
    /\ df' = None
    /\ sel' = NoSelection
    /\ view' = <<>>
    /\ cards' = NoCards
    /\ scatter' = NoScatter
    /\ radar' = <<>>
    /\ rendered' = {}
    /\ exc' = NoExc

Raise(type) ==
    /\ pc' = "crashed"
    /\ exc' = [type |-> type, at |-> pc]

InitWith(files, start, ages) ==
    /\ file \in files
    /\ cache = EmptyCache
    /\ reads = 0
    /\ firstDf = NoFirst
    /\ session = NoSession
    /\ pc = start
    /\ df = None
    /\ sel = NoSelection
    /\ view = <<>>
    /\ cards = NoCards
    /\ scatter = NoScatter
    /\ radar = <<>>
    /\ rendered = {}
    /\ exc = NoExc
    /\ cutIn \in ages
    /\ cutOut = NoCut

Init == InitWith(Files, "load", {0})

\* df = load_data(); if df is None: st.stop()
LoadData ==
    /\ pc = "load"
    /\ CacheHit \/ reads < MaxReads
    /\ LET res == IF CacheHit
                  THEN [value |-> cache.value, message |-> cache.message]
                  ELSE ReadAndBucket(file)
       IN  /\ reads' = IF CacheHit THEN reads ELSE reads + 1
           /\ cache' = IF CacheHit THEN cache
                       ELSE [full |-> TRUE, value |-> res.value,
                             message |-> res.message]
           /\ firstDf' = IF firstDf.set THEN firstDf
                         ELSE [set |-> TRUE, value |-> res.value]
           /\ df' = res.value
           /\ rendered' = IF res.message = NoMessage THEN rendered
                          ELSE rendered \cup {res.message}
           /\ pc' = IF StopIfNone(res.value) THEN "stopped" ELSE "filters"
    /\ UNCHANGED <<file, session, sel, view, cards, scatter, radar, exc,
                   cutIn, cutOut>>

(***************************************************************************)
(* The sidebar's three multiselects.                                       *)
(***************************************************************************)
FilterPlatform == "Social Media Platform"
FilterAge == "Age Range"
FilterGender == "Gender"

\* st.sidebar.multiselect(options, default): what the user has chosen, or
\* the default as long as the widget has not been touched.
Multiselect(widget, stored, default) ==
    IF widget \in session.touched THEN stored ELSE default

Filters ==
    /\ pc = "filters"
    /\ IF ~df.ok   \* None["Social_Media_Platform"]
       THEN Raise("TypeError") /\ UNCHANGED <<sel, rendered>>
       ELSE IF Platform \notin df.columns
       THEN Raise("KeyError") /\ UNCHANGED <<sel, rendered>>
       ELSE LET platform == Multiselect(FilterPlatform, session.platform,
                                        Unique(Col(df.rows, Platform)))
                age == Multiselect(FilterAge, session.age,
                                   Range(Unique(Col(df.rows, Age_Range))))
            IN  IF Gender \notin df.columns
                THEN /\ Raise("KeyError")
                     /\ sel' = [sel EXCEPT !.platform = platform, !.age = age]
                     /\ rendered' = rendered \cup {FilterPlatform, FilterAge}
                ELSE /\ sel' = [platform |-> platform, age |-> age,
                                gender |-> Multiselect(FilterGender, session.gender,
                                              Range(Unique(Col(df.rows, Gender))))]
                     /\ rendered' = rendered \cup
                                        {FilterPlatform, FilterAge, FilterGender}
                     /\ pc' = "filter"
                     /\ exc' = exc
    /\ UNCHANGED <<file, cache, reads, firstDf, session, df, view, cards,
                   scatter, radar, cutIn, cutOut>>

\* The three tests joined by | instead of &.
MaskAny(rows, s) ==
    [i \in 1..Len(rows) |->
        \/ IsIn(Col(rows, Platform), Range(s.platform))[i]
        \/ IsIn(Col(rows, Age_Range), s.age)[i]
        \/ IsIn(Col(rows, Gender), s.gender)[i]]

\* isin(selected_platform) & isin(selected_age_range) & isin(selected_gender)
Mask(rows, s) ==
    [i \in 1..Len(rows) |->
        /\ IsIn(Col(rows, Platform), Range(s.platform))[i]
        /\ IsIn(Col(rows, Age_Range), s.age)[i]
        /\ IsIn(Col(rows, Gender), s.gender)[i]]

\* filtered_df = df[...]
FilterRows ==
    /\ pc = "filter"
    /\ view' = BoolIndex(df.rows, Mask(df.rows, sel))
    /\ pc' = "metrics"
    /\ UNCHANGED <<file, cache, reads, firstDf, session, df, sel, cards,
                   scatter, radar, rendered, exc, cutIn, cutOut>>

(***************************************************************************)
(* The four metric cards.                                                  *)
(***************************************************************************)
MetricOrder == <<Happiness, Stress, Screen, Exercise>>

MetricLabel(c) ==
    CASE c = Happiness -> "Average Happiness"
      [] c = Stress -> "Average Stress Level"
      [] c = Screen -> "Avg Screen Time (hrs)"
      [] c = Exercise -> "Avg Exercise (weekly)"

\* The stress card's delta taken the way of the other three.
DeltaUniform(c, filtered, overall) == Sub(filtered, overall)

\* The third argument of st.metric, before it is formatted.
Delta(c, filtered, overall) ==
    IF c = Stress THEN Sub(overall, filtered) ELSE Sub(filtered, overall)

Card(c, rows, shown) ==
    [value |-> Format2f(Mean(Col(shown, c))),
     delta |-> Format2f(Delta(c, Mean(Col(shown, c)), Mean(Col(rows, c))))]

\* The cards are built in order; the first column the table lacks raises
\* KeyError and the cards before it stay on the page.
Metrics ==
    /\ pc = "metrics"
    /\ LET lacking == {i \in 1..Len(MetricOrder) : MetricOrder[i] \notin df.columns}
           stop == IF lacking = {} THEN Len(MetricOrder) + 1
                   ELSE CHOOSE i \in lacking : \A j \in lacking : i <= j
           built == {MetricOrder[i] : i \in 1..(stop - 1)}
       IN  /\ cards' = [c \in built |-> Card(c, df.rows, view)]
           /\ rendered' = rendered \cup {MetricLabel(c) : c \in built}
           /\ IF lacking = {}
              THEN pc' = "platform_tab" /\ exc' = exc
              ELSE Raise("KeyError")
    /\ UNCHANGED <<file, cache, reads, firstDf, session, df, sel, view,
                   scatter, radar, cutIn, cutOut>>

(***************************************************************************)
(* The charts.                                                             *)
(***************************************************************************)
\* fig_platform and fig_screen_time
PlatformTab ==
    /\ pc = "platform_tab"
    /\ rendered' = rendered \cup {"fig_platform", "fig_screen_time"}
    /\ pc' = "scatter"
    /\ UNCHANGED <<file, cache, reads, firstDf, session, df, sel, view, cards,
                   scatter, radar, exc, cutIn, cutOut>>

\* px.scatter(size=c) hands the column to marker.size, which takes numbers
\* >= 0 only: a missing cell among the rows raises ValueError.
SizeInvalid(rows, c) == \E i \in 1..Len(rows) : rows[i][c] = NaN

\* fig_happiness: with the lowess trendline, and without it when that
\* raised.  Whether the trendline can be fitted is the library's answer.
HappinessScatter ==
    /\ pc = "scatter"
    /\ \E lowess_ok \in BOOLEAN :
          IF lowess_ok /\ ~SizeInvalid(view, Exercise)
          THEN /\ scatter' = [trendline_failed |-> FALSE, fig |-> "lowess"]
               /\ rendered' = rendered \cup {"fig_happiness"}
               /\ pc' = "radar"
               /\ exc' = exc
          ELSE IF ~SizeInvalid(view, Exercise)
          THEN /\ scatter' = [trendline_failed |-> TRUE, fig |-> "plain"]
               /\ rendered' = rendered \cup {"fig_happiness"}
               /\ pc' = "radar"
               /\ exc' = exc
          ELSE /\ scatter' = [trendline_failed |-> TRUE, fig |-> "none"]
               /\ rendered' = rendered
               /\ Raise("ValueError")
    /\ UNCHANGED <<file, cache, reads, firstDf, session, df, sel, view, cards,
                   radar, cutIn, cutOut>>

categories == <<Sleep, Stress, Happiness, Exercise>>

\* One go.Scatterpolar: the platform's means, closed by the first one.
Trace(platform, shown) ==
    LET platform_data == BoolIndex(shown, EqMask(Col(shown, Platform), platform))
        values == [k \in 1..Len(categories) |-> Mean(Col(platform_data, categories[k]))]
    IN  [name |-> platform,
         r |-> values \o SubSeq(values, 1, 1),
         theta |-> categories \o <<categories[1]>>]

\* fig_radar: one trace per selected platform; platform_data[categories]
\* raises KeyError when the table lacks one of the categories.
Radar ==
    /\ pc = "radar"
    /\ IF sel.platform # <<>> /\ ~(Range(categories) \subseteq df.columns)
       THEN Raise("KeyError") /\ UNCHANGED <<radar, rendered>>
       ELSE /\ radar' = [i \in 1..Len(sel.platform) |-> Trace(sel.platform[i], view)]
            /\ rendered' = rendered \cup {"fig_radar"}
            /\ pc' = "demographics"
            /\ exc' = exc
    /\ UNCHANGED <<file, cache, reads, firstDf, session, df, sel, view, cards,
                   scatter, cutIn, cutOut>>

\* fig_age and fig_exercise
DemographicsTab ==
    /\ pc = "demographics"
    /\ IF SizeInvalid(view, Screen)
       THEN Raise("ValueError") /\ rendered' = rendered \cup {"fig_age"}
       ELSE /\ rendered' = rendered \cup {"fig_age", "fig_exercise"}
            /\ pc' = "correlation"
            /\ exc' = exc
    /\ UNCHANGED <<file, cache, reads, firstDf, session, df, sel, view, cards,
                   scatter, radar, cutIn, cutOut>>

\* fig_corr
Correlation ==
    /\ pc = "correlation"
    /\ rendered' = rendered \cup {"fig_corr"}
    /\ pc' = "summary"
    /\ UNCHANGED <<file, cache, reads, firstDf, session, df, sel, view, cards,
                   scatter, radar, exc, cutIn, cutOut>>

\* filtered_df.describe() in the expander, and the footer
Summary ==
    /\ pc = "summary"
    /\ rendered' = rendered \cup {"describe"}
    /\ pc' = "done"
    /\ UNCHANGED <<file, cache, reads, firstDf, session, df, sel, view, cards,
                   scatter, radar, exc, cutIn, cutOut>>

(***************************************************************************)
(* The user.                                                               *)
(***************************************************************************)
Toggle(set, x) == IF x \in set THEN set \ {x} ELSE set \cup {x}

ToggleSeq(seq, x) ==
    IF x \in Range(seq) THEN SelectSeq(seq, LAMBDA y : y # x) ELSE Append(seq, x)

\* The user adds an option to a multiselect on the page, or removes one;
\* Streamlit stores the choice and runs the script again.
ChangeSelection ==
    /\ pc # "cut"
    /\ \E widget \in rendered \cap {FilterPlatform, FilterAge, FilterGender} :
          LET column == CASE widget = FilterPlatform -> Platform
                          [] widget = FilterAge -> Age_Range
                          [] widget = FilterGender -> Gender
          IN  \E option \in Range(Col(df.rows, column)) :
                 session' =
                    [touched |-> session.touched \cup {widget},
                     platform |-> IF widget = FilterPlatform
                                  THEN ToggleSeq(sel.platform, option)
                                  ELSE session.platform,
                     age |-> IF widget = FilterAge THEN Toggle(sel.age, option)
                             ELSE session.age,
                     gender |-> IF widget = FilterGender
                                THEN Toggle(sel.gender, option)
                                ELSE session.gender]
    /\ StartRun
    /\ UNCHANGED <<file, cache, reads, firstDf, cutIn, cutOut>>

\* The user asks for a rerun (the menu's Rerun, or R).
Rerun ==
    /\ pc \notin {"load", "cut"}
    /\ StartRun
    /\ UNCHANGED <<file, cache, reads, firstDf, session, cutIn, cutOut>>

\* Somebody replaces, removes or restores the CSV on disk.
ReplaceFile ==
    /\ pc # "cut"
    /\ file' \in CacheFiles \ {file}
    /\ UNCHANGED <<cache, reads, firstDf, session, pc, df, sel, view, cards,
                   scatter, radar, rendered, exc, cutIn, cutOut>>

Next ==
    \/ LoadData
    \/ Filters
    \/ FilterRows
    \/ Metrics
    \/ PlatformTab
    \/ HappinessScatter
    \/ Radar
    \/ DemographicsTab
    \/ Correlation
    \/ Summary
    \/ ChangeSelection
    \/ Rerun

Spec == Init /\ [][Next]_vars

\* The same session with the file changing on disk under it.
InitCache == InitWith(CacheFiles, "load", {0})

NextCache == Next \/ ReplaceFile

SpecCache == InitCache /\ [][NextCache]_vars

(***************************************************************************)
(* pd.cut on its own, over every Age up to MaxAge.                         *)
(***************************************************************************)
InitCut == InitWith({MissingFile}, "cut", 0..MaxAge)

\* The bucket of one Age, as load_data computes it for a row.
ApplyCut ==
    /\ pc = "cut"
    /\ ~cutOut.done
    /\ cutOut' = [done |-> TRUE, label |-> Cut(<<cutIn>>)]
    /\ UNCHANGED <<file, cache, reads, firstDf, session, pc, df, sel, view,
                   cards, scatter, radar, rendered, exc, cutIn>>

SpecCut == InitCut /\ [][ApplyCut]_vars

(***************************************************************************)
(* The claims.                                                             *)
(***************************************************************************)
Abs(n) == IF n < 0 THEN 0 - n ELSE n

ZeroShown == [nan |-> FALSE, cents |-> 0]
NanShown == [nan |-> TRUE, cents |-> 0]

ChartsAndCards ==
    {MetricLabel(MetricOrder[i]) : i \in 1..Len(MetricOrder)}
    \cup {"fig_platform", "fig_screen_time", "fig_happiness", "fig_radar",
          "fig_age", "fig_exercise", "fig_corr", "describe"}

\* The rows of the table that satisfy all three membership predicates.
Matching ==
    {i \in 1..Len(df.rows) :
        /\ df.rows[i][Platform] \in Range(sel.platform)
        /\ df.rows[i][Age_Range] \in sel.age
        /\ df.rows[i][Gender] \in sel.gender}

\* The k-th smallest element of a set of numbers.
Nth(S, k) == CHOOSE i \in S : Cardinality({j \in S : j < i}) = k - 1

\* C1: once the filter step has run, the Filtered View holds exactly the
\* rows of the table whose platform, age range and gender are each in the
\* corresponding selection, each once and in the table's order.
C1_FilteredViewIsIntersection ==
    Passed("filter") =>
        LET matching == Matching
        IN  /\ Len(view) = Cardinality(matching)
            /\ \A k \in 1..Len(view) : view[k] = df.rows[Nth(matching, k)]

\* A run whose selections keep some rows of the table and drop others.
C1_Witness ==
    /\ Passed("filter")
    /\ Len(view) >= 1
    /\ Len(view) < Len(df.rows)

\* C2: a run whose load failed shows the error message and nothing else,
\* stops there, and raises nothing; and a file that is missing, unreadable
\* or without an Age column does fail to load.
C2_NoRenderingAfterLoadFailure ==
    /\ (Passed("load") /\ ~df.ok) =>
          /\ pc = "stopped"
          /\ exc = NoExc
          /\ rendered \in {{NotFoundMessage}, {LoadErrorMessage}}
          /\ rendered \cap ChartsAndCards = {}
          /\ rendered \cap {FilterPlatform, FilterAge, FilterGender} = {}
    /\ (Passed("load") /\ (file.kind # "csv" \/ Age \notin file.columns)) => ~df.ok
    /\ (Passed("load") /\ file.kind = "missing") => rendered = {NotFoundMessage}

\* A run stopped on a missing file, the cached failure replayed by a rerun.
C2_Witness ==
    /\ pc = "stopped"
    /\ file.kind = "missing"
    /\ rendered = {NotFoundMessage}
    /\ reads = 1

\* C3: a CSV that lacks any required column ends the run in the loader,
\* with the loader's error on the page, no exception and no chart.
C3_MissingColumnCaughtByLoader ==
    (Passed("load") /\ file.kind = "csv" /\ file.columns # Columns) =>
        /\ pc = "stopped"
        /\ LoadErrorMessage \in rendered
        /\ exc = NoExc
        /\ rendered \cap ChartsAndCards = {}

\* C4: every Age from 10 to 99 gets one of the seven labels, never a
\* missing value; 10 gets the first label, and an Age in (bins[k],
\* bins[k+1]] gets the k-th label, so every inner edge falls into the
\* lower of its two bins.
C4_CutIsTotalOnDomain ==
    cutOut.done =>
        /\ (cutIn >= 10 /\ cutIn < 100) =>
              /\ cutOut.label # NaN
              /\ cutOut.label[1] \in Range(labels)
        /\ cutIn = 10 => cutOut.label = <<"15-20">>
        /\ \A k \in 1..Len(labels) :
              (bins[k] < cutIn /\ cutIn <= bins[k + 1]) =>
                  cutOut.label = <<labels[k]>>
        /\ cutIn = 20 => cutOut.label = <<"15-20">>
        /\ cutIn = 25 => cutOut.label = <<"21-25">>
        /\ cutIn = 30 => cutOut.label = <<"26-30">>
        /\ cutIn = 35 => cutOut.label = <<"31-35">>
        /\ cutIn = 40 => cutOut.label = <<"36-40">>
        /\ cutIn = 50 => cutOut.label = <<"41-50">>

\* The edge 25 has been bucketed.
C4_Witness ==
    /\ cutOut.done
    /\ cutIn = 25
    /\ cutOut.label = <<"21-25">>

\* Every filter holds every value of its column, the missing one included:
\* the widgets are untouched, or the user has come back to the full sets.
AllSelected ==
    /\ Passed("filters")
    /\ \/ session.touched = {}
       \/ /\ Range(sel.platform) = Range(Col(df.rows, Platform))
          /\ sel.age = Range(Col(df.rows, Age_Range))
          /\ sel.gender = Range(Col(df.rows, Gender))

HasValue(rows, c) == \E i \in 1..Len(rows) : rows[i][c] # NaN

\* C5 as amended: the Filtered View never has more rows than the table;
\* with every filter at its default it is the table; and then the delta of
\* a metric is 0 when some record has a value for it and not-a-number
\* when none has (an empty table, or a column of missing cells).
C5_DefaultSelectionShowsWholeTable ==
    /\ Passed("filter") => Len(view) <= Len(df.rows)
    /\ (Passed("filter") /\ AllSelected) => view = df.rows
    /\ AllSelected =>
          \A c \in DOMAIN cards :
              cards[c].delta = IF HasValue(df.rows, c) THEN ZeroShown ELSE NanShown

\* The user has changed the filters and come back to the full sets, over a
\* table with a row whose Age is outside the bins.
C5_Witness ==
    /\ Passed("metrics")
    /\ AllSelected
    /\ session.touched # {}
    /\ NaN \in Range(Col(df.rows, Age_Range))
    /\ cards[Exercise].delta = ZeroShown

\* C5 as stated: with every filter at its default, each delta is 0.
C5_DefaultDeltasAreZero ==
    AllSelected => \A c \in DOMAIN cards : cards[c].delta = ZeroShown

\* C6: the file is read at most once, by the first call of load_data, and
\* every run gets the table (or the failure) that first call returned.
C6_FileReadAtMostOnce ==
    /\ reads <= 1
    /\ cache.full <=> reads = 1
    /\ Passed("load") => (firstDf.set /\ df = firstDf.value /\ df = cache.value)

\* A later run, after a filter change, with a file on disk that would no
\* longer load to the table the run got.
C6_Witness ==
    /\ Passed("load")
    /\ session.touched # {}
    /\ df.ok
    /\ ReadAndBucket(file).value # df

\* The exact difference the card of column c is to show.
ExpectedDelta(c) ==
    LET filtered == Mean(Col(view, c))
        overall == Mean(Col(df.rows, c))
        sign == IF c = Stress THEN 0 - 1 ELSE 1
    IN  [nan |-> IsNaNF(filtered) \/ IsNaNF(overall),
         num |-> sign * (filtered.num * overall.den - overall.num * filtered.den),
         den |-> filtered.den * overall.den]

\* C7: the stress card's delta is the overall mean minus the filtered
\* mean and the other cards' delta is the filtered mean minus the overall
\* mean, each shown to the nearest hundredth.
C7_DeltaSignConvention ==
    \A c \in DOMAIN cards :
        LET e == ExpectedDelta(c)
        IN  IF e.nan THEN cards[c].delta = NanShown
            ELSE /\ ~cards[c].delta.nan
                 /\ 2 * Abs(100 * e.num - cards[c].delta.cents * e.den) <= e.den

\* A filtered view less stressed and happier than the table as a whole.
C7_Witness ==
    /\ Passed("metrics")
    /\ cards[Stress].delta.cents > 0
    /\ cards[Happiness].delta.cents > 0

\* C8: with an empty selection the metrics step shows four cards whose
\* value and delta are not-a-number over an empty view, and does not raise.
C8_EmptySelectionGivesNaNCards ==
    (Acted("metrics") /\ (sel.platform = <<>> \/ sel.age = {} \/ sel.gender = {})) =>
        /\ view = <<>>
        /\ ~(pc = "crashed" /\ exc.at = "metrics")
        /\ \A c \in Range(MetricOrder) :
              c \in DOMAIN cards /\ cards[c].value = NanShown /\ cards[c].delta = NanShown

\* C9: a run whose smoothed scatter raised shows the plain scatter and
\* does not end in an exception, at the scatter or at any later step.
C9_SmoothingFailureRecovered ==
    scatter.trendline_failed =>
        /\ scatter.fig = "plain"
        /\ "fig_happiness" \in rendered
        /\ pc # "crashed"

FracEq(a, b) ==
    IF IsNaNF(a) \/ IsNaNF(b) THEN IsNaNF(a) /\ IsNaNF(b)
    ELSE a.num * b.den = b.num * a.den

\* The records of the view that carry the platform.
RecordsOf(platform) == BoolIndex(view, IsIn(Col(view, Platform), {platform}))

\* C10: the radar has one trace per selected platform, in order, whose five
\* values are the means of the four categories over that platform's
\* records of the view, the first one repeated, under the five labels.
C10_RadarTracePerSelectedPlatform ==
    Passed("radar") =>
        /\ Len(radar) = Len(sel.platform)
        /\ \A i \in 1..Len(radar) :
              /\ radar[i].name = sel.platform[i]
              /\ Len(radar[i].r) = 5
              /\ radar[i].r[5] = radar[i].r[1]
              /\ radar[i].theta = <<Sleep, Stress, Happiness, Exercise, Sleep>>
              /\ \A k \in 1..4 :
                    FracEq(radar[i].r[k],
                           Mean(Col(RecordsOf(sel.platform[i]), categories[k])))

====
